---- MODULE Spec2Model ----
(***************************************************************************)
(* A model of the FORGE documentation server: the markdown parser          *)
(* (parser.py), the parsed-document index and its search (models.py) and   *)
(* the five query tools that read the process-wide PARSED_DOC (server.py). *)
(*                                                                         *)
(* Python strings are sequences of one-character strings, so that the      *)
(* string operations of the code (split, strip, startswith, lower, "in",   *)
(* join, slicing) are computed and not assumed.  Python objects that are   *)
(* shared by reference (Section) live in the heap secs and are named by  *)
(* their index there; Optional[T] is <<>> for None and <<x>> for a value.  *)
(***************************************************************************)
EXTENDS Integers, Sequences, FiniteSets, TLC

VARIABLES
    pc,           \* "boot" | "parsing" | "running": where the process is
    lines,        \* parse_document: content.split('\n')
    i,            \* parse_document: the loop index (0-based, as in the code)
    stack,        \* parse_document: current_section_stack (heap indices)
    secs,         \* the heap of Section objects, in creation order
    sections,     \* ForgeDocParser.sections: the top-level sections (heap indices)
    code_blocks,  \* ForgeDocParser.code_blocks
    PARSED_DOC,   \* server.PARSED_DOC: Optional[ParsedDoc]
    call,         \* the last tool call: its name, arguments and structured result
    resp          \* the text the last tool call returned

vars == <<pc, lines, i, stack, secs, sections, code_blocks, PARSED_DOC, call, resp>>

----------------------------------------------------------------------------
(* Optional values and Python truthiness *)

None == <<>>
Some(x) == <<x>>

\* (not x) for x an Optional[dataclass]: a dataclass instance defines neither
\* __bool__ nor __len__, so only None is falsy.
Falsy(opt) == opt = None

\* a test that also takes a document without sections for no document
NoDocumentOrEmpty(doc) == doc = None \/ doc[1].sections = <<>>

\* "if not PARSED_DOC" at the head of each tool
NoDocument(doc) == Falsy(doc)

----------------------------------------------------------------------------
(* Strings *)

Whitespace == {" ", "\t"}

UpperCase == <<"A", "B", "C", "D", "E", "F", "G", "H", "I", "J", "K", "L", "M",
               "N", "O", "P", "Q", "R", "S", "T", "U", "V", "W", "X", "Y", "Z">>
LowerCase == <<"a", "b", "c", "d", "e", "f", "g", "h", "i", "j", "k", "l", "m",
               "n", "o", "p", "q", "r", "s", "t", "u", "v", "w", "x", "y", "z">>
Digits == {"0", "1", "2", "3", "4", "5", "6", "7", "8", "9"}

LowerChar(c) ==
    IF \E k \in 1..Len(UpperCase) : UpperCase[k] = c
    THEN LowerCase[CHOOSE k \in 1..Len(UpperCase) : UpperCase[k] = c]
    ELSE c

\* str.lower()
Lower(s) == [k \in 1..Len(s) |-> LowerChar(s[k])]

\* needle in hay
Contains(needle, hay) ==
    \E k \in 0..(Len(hay) - Len(needle)) : SubSeq(hay, k + 1, k + Len(needle)) = needle

\* s.startswith(p)
StartsWith(s, p) == Len(s) >= Len(p) /\ SubSeq(s, 1, Len(p)) = p

\* s.strip()
Strip(s) ==
    LET keep == {k \in 1..Len(s) : s[k] \notin Whitespace}
    IN  IF keep = {} THEN <<>>
        ELSE SubSeq(s, CHOOSE k \in keep : \A m \in keep : k <= m,
                       CHOOSE k \in keep : \A m \in keep : m <= k)

\* sep.join(parts)
RECURSIVE Join(_, _)
Join(parts, sep) ==
    IF parts = <<>> THEN <<>>
    ELSE IF Len(parts) = 1 THEN parts[1]
    ELSE parts[1] \o sep \o Join(Tail(parts), sep)

\* s.split(c) for a one-character separator c
RECURSIVE Split(_, _)
Split(s, c) ==
    LET at == {k \in 1..Len(s) : s[k] = c}
    IN  IF at = {} THEN <<s>>
        ELSE LET k == CHOOSE k \in at : \A m \in at : k <= m
             IN  <<SubSeq(s, 1, k - 1)>> \o Split(SubSeq(s, k + 1, Len(s)), c)

\* s[:n]
Take(s, n) == SubSeq(s, 1, IF n < Len(s) THEN n ELSE Len(s))
\* s[n:]
Drop(s, n) == SubSeq(s, n + 1, Len(s))

Last(s) == s[Len(s)]

NL == <<"\n">>
Slash == <<"/">>
\* The backquote character, which a TLA+ string cannot hold, is written "~"
\* (no document or argument of the model holds a tilde).
BackQuote == "~"
Fence == <<BackQuote, BackQuote, BackQuote>>
Plaintext == <<"p", "l", "a", "i", "n", "t", "e", "x", "t">>

----------------------------------------------------------------------------
(* dict: insertion-ordered; assigning to an existing key keeps its place *)

EmptyDict == [keys |-> <<>>, vals |-> <<>>]

KeyIndex(d, k) ==
    IF \E n \in 1..Len(d.keys) : d.keys[n] = k
    THEN CHOOSE n \in 1..Len(d.keys) : d.keys[n] = k
    ELSE 0

\* d[k] = v
DictSet(d, k, v) ==
    IF KeyIndex(d, k) = 0
    THEN [keys |-> Append(d.keys, k), vals |-> Append(d.vals, v)]
    ELSE [d EXCEPT !.vals[KeyIndex(d, k)] = v]

\* d.get(k)
DictGet(d, k) == IF KeyIndex(d, k) = 0 THEN None ELSE Some(d.vals[KeyIndex(d, k)])

----------------------------------------------------------------------------
(* parser.py: the line classes of parse_document *)

\* the number of leading '#' of a line
LeadingHashes(line) ==
    IF \E k \in 1..Len(line) : line[k] # "#"
    THEN (CHOOSE k \in 1..Len(line) : line[k] # "#" /\ \A m \in 1..(k - 1) : line[m] = "#") - 1
    ELSE Len(line)

\* a pattern that takes up to four '#'
HeaderMatchUpToFour(line) ==
    LET n == LeadingHashes(line)
        rest == Drop(line, n)
    IN  n \in 1..4 /\ Len(rest) >= 2 /\ rest[1] \in Whitespace

\* re.match(r'^(#{1,3})\s+(.+)$', line): one to three '#', then whitespace,
\* then at least one more character (which \s+ gives back when the rest is
\* all whitespace).  With four or more '#' the character after any group of
\* one to three of them is a '#', which \s+ cannot match.
HeaderMatch(line) ==
    LET n == LeadingHashes(line)
        rest == Drop(line, n)
    IN  n \in 1..3 /\ Len(rest) >= 2 /\ rest[1] \in Whitespace

\* len(header_match.group(1))
HeaderLevel(line) == LeadingHashes(line)

\* header_match.group(2).strip()
HeaderTitle(line) == Strip(Drop(line, LeadingHashes(line)))

\* line.strip().startswith(FENCE), FENCE being three backquotes
IsFenceStart(line) == StartsWith(Strip(line), Fence)

\* lines[i].strip() == FENCE
IsFenceEnd(line) == Strip(line) = Fence

\* Section(title, level, content="", path, line_number)
Section(title, level, path, line_number) ==
    [title |-> title, level |-> level, content |-> <<>>, path |-> path,
     line_number |-> line_number, code_blocks |-> <<>>, subsections |-> <<>>]

\* CodeBlock(language, code, context_section, line_number)
CodeBlock(language, code, context_section, line_number) ==
    [language |-> language, code |-> code, context_section |-> context_section,
     line_number |-> line_number]

\* _build_path(stack, title): the titles of the stack entries and the new title
_build_path(heap, stk, title) ==
    Join([k \in 1..Len(stk) |-> heap[stk[k]].title] \o <<title>>, Slash)

\* a scan of the stack from the bottom: the first entry of a lower level
ParentIndexFromBottom(heap, stk, level) ==
    LET below == {k \in 1..Len(stk) : heap[stk[k]].level < level}
    IN  IF below = {} THEN 0 ELSE CHOOSE k \in below : \A m \in below : k <= m

\* _add_section_to_hierarchy, "for parent in reversed(stack)": the place in
\* the stack of the last entry whose level is below the new one, 0 for none
ParentIndex(heap, stk, level) ==
    LET below == {k \in 1..Len(stk) : heap[stk[k]].level < level}
    IN  IF below = {} THEN 0 ELSE CHOOSE k \in below : \A m \in below : m <= k

\* _add_section_to_hierarchy(section, stack), the section being heap[id]:
\* the heap and the list of top-level sections afterwards
_add_section_to_hierarchy(heap, roots, id, stk) ==
    LET p == ParentIndex(heap, stk, heap[id].level)
    IN  IF stk = <<>> \/ p = 0
        THEN [secs |-> heap, sections |-> Append(roots, id)]
        ELSE [secs |-> [heap EXCEPT ![stk[p]].subsections = Append(@, id)],
              sections |-> roots]

\* while stack and stack[-1].level.value >= level: stack.pop()
RECURSIVE PopStack(_, _, _)
PopStack(heap, stk, level) ==
    IF stk # <<>> /\ heap[Last(stk)].level >= level
    THEN PopStack(heap, SubSeq(stk, 1, Len(stk) - 1), level)
    ELSE stk

\* current_section_stack[0]: the outermost open section
OutermostOpen(stk) == stk[1]

\* current_section_stack[-1]: the deepest open section
DeepestOpen(stk) == Last(stk)

\* a scan that returns the block also when the input ends inside the fence
ParseCodeBlockKeepingUnclosed(ls, start_line) ==
    LET first_line == Strip(ls[start_line + 1])
        tag == Strip(Drop(first_line, 3))
        language == IF tag = <<>> THEN Plaintext ELSE tag
        closing == {j \in (start_line + 1)..(Len(ls) - 1) : IsFenceEnd(ls[j + 1])}
        e == IF closing = {} THEN Len(ls)
             ELSE CHOOSE j \in closing : \A m \in closing : j <= m
    IN  [block |-> Some(CodeBlock(language, Join(SubSeq(ls, start_line + 2, e), NL),
                                  <<>>, start_line)),
         end |-> e]

\* _parse_code_block(lines, start_line): the block (or None) and the end line
_parse_code_block(ls, start_line) ==
    IF ~IsFenceStart(ls[start_line + 1])
    THEN [block |-> None, end |-> start_line]
    ELSE LET first_line == Strip(ls[start_line + 1])
             tag == Strip(Drop(first_line, 3))
             language == IF tag = <<>> THEN Plaintext ELSE tag
             closing == {j \in (start_line + 1)..(Len(ls) - 1) : IsFenceEnd(ls[j + 1])}
         IN  IF closing = {}
             THEN [block |-> None, end |-> Len(ls)]
             ELSE LET e == CHOOSE j \in closing : \A m \in closing : j <= m
                  IN  [block |-> Some(CodeBlock(language,
                                                Join(SubSeq(ls, start_line + 2, e), NL),
                                                <<>>, start_line)),
                       end |-> e]

\* _flatten_sections(sections): pre-order, each section and then its subsections
RECURSIVE _flatten_sections(_, _)
_flatten_sections(heap, ids) ==
    IF ids = <<>> THEN <<>>
    ELSE <<ids[1]>> \o _flatten_sections(heap, heap[ids[1]].subsections)
                    \o _flatten_sections(heap, Tail(ids))

\* for section in flatten: sections_by_path[section.path] = section
RECURSIVE BuildSectionsByPath(_, _, _)
BuildSectionsByPath(heap, flat, d) ==
    IF flat = <<>> THEN d
    ELSE BuildSectionsByPath(heap, Tail(flat), DictSet(d, heap[flat[1]].path, flat[1]))

ClassWord == <<"c", "l", "a", "s", "s">>
CreatingA == <<"C", "r", "e", "a", "t", "i", "n", "g", " ", "a">>
ClassType == ClassWord

\* \w of the regular expressions
WordChars == {UpperCase[k] : k \in 1..Len(UpperCase)} \cup
             {LowerCase[k] : k \in 1..Len(LowerCase)} \cup Digits \cup {"_"}

\* (\w+) at the start of s: the longest run of word characters
WordRun(s) ==
    IF \E k \in 1..Len(s) : s[k] \notin WordChars
    THEN SubSeq(s, 1, (CHOOSE k \in 1..Len(s) :
                          s[k] \notin WordChars /\ \A m \in 1..(k - 1) : s[m] \in WordChars) - 1)
    ELSE s

\* the pattern 'Creating a (\w+)|class (\w+)' tried at the start of s
ClassMatchAt(s) ==
    LET a == CreatingA \o <<" ">>
        c == ClassWord \o <<" ">>
    IN  IF StartsWith(s, a) /\ WordRun(Drop(s, Len(a))) # <<>>
        THEN Some(WordRun(Drop(s, Len(a))))
        ELSE IF StartsWith(s, c) /\ WordRun(Drop(s, Len(c))) # <<>>
        THEN Some(WordRun(Drop(s, Len(c))))
        ELSE None

\* re.search(r'Creating a (\w+)|class (\w+)', title): the leftmost match
ClassMatch(title) ==
    LET hits == {k \in 0..Len(title) : ClassMatchAt(Drop(title, k)) # None}
    IN  IF hits = {} THEN None
        ELSE ClassMatchAt(Drop(title, CHOOSE k \in hits : \A m \in hits : k <= m))

\* APIEntry(name, type="class", description, section_path); the other
\* fields keep their defaults
APIEntry(name, description, section_path) ==
    [name |-> name, type |-> ClassType, description |-> description,
     parameters |-> <<>>, returns |-> None, examples |-> <<>>,
     section_path |-> section_path]

\* _extract_api_entries over the flattened sections
RECURSIVE _extract_api_entries(_, _, _)
_extract_api_entries(heap, flat, d) ==
    IF flat = <<>> THEN d
    ELSE LET section == heap[flat[1]]
             m == ClassMatch(section.title)
         IN  _extract_api_entries(heap, Tail(flat),
                 IF (Contains(ClassWord, Lower(section.title))
                        \/ Contains(CreatingA, section.title)) /\ m # None
                 THEN DictSet(d, m[1],
                              APIEntry(m[1], Split(section.content, "\n")[1], section.path))
                 ELSE d)

\* ParsedDoc(sections, sections_by_path, all_code_blocks, api_entries)
ParsedDoc(roots, by_path, blocks, api) ==
    [sections |-> roots, sections_by_path |-> by_path,
     all_code_blocks |-> blocks, api_entries |-> api]

----------------------------------------------------------------------------
(* The documents *)

MaxLines == 4

H1A == <<"#", " ", "A">>
H2b == <<"#", "#", " ", "b">>
H3c == <<"#", "#", "#", " ", "c">>
H4d == <<"#", "#", "#", "#", " ", "d">>
FencePy == Fence \o <<"p", "y">>
TextX == <<"x">>
Blank == <<>>

ParserLines == {H1A, H2b, H3c, H4d, Fence, FencePy, TextX, Blank}

\* the texts of one to n lines, each line drawn from pool
Texts(pool, n) == {Join(ls, NL) : ls \in UNION {[1..k -> pool] : k \in 1..n}}

ParserDocs == Texts(ParserLines, MaxLines)

----------------------------------------------------------------------------
(* server.py, start of the process: load_documentation *)

NoCall == [op |-> "none"]

Init ==
    /\ pc = "boot"
    /\ lines = <<>>
    /\ i = 0
    /\ stack = <<>>
    /\ secs = <<>>
    /\ sections = <<>>
    /\ code_blocks = <<>>
    /\ PARSED_DOC = None
    /\ call = NoCall
    /\ resp = <<>>

\* load_documentation raises (the file is missing or unreadable); the
\* module-level try/except logs it and the process goes on without an index
LoadFail ==
    /\ pc = "boot"
    /\ pc' = "running"
    /\ UNCHANGED <<lines, i, stack, secs, sections, code_blocks, PARSED_DOC, call, resp>>

\* load_documentation reads the file and enters parse_document (lines 18-24)
LoadFrom(docs) ==
    /\ pc = "boot"
    /\ \E content \in docs : lines' = Split(content, "\n")
    /\ sections' = <<>>
    /\ code_blocks' = <<>>
    /\ secs' = <<>>
    /\ stack' = <<>>
    /\ i' = 0
    /\ pc' = "parsing"
    /\ UNCHANGED <<PARSED_DOC, call, resp>>

LoadStart == LoadFrom(ParserDocs)

----------------------------------------------------------------------------
(* parser.py: one turn of the loop of parse_document *)

\* a header line: lines 30-49 and 64
ParseHeader ==
    /\ pc = "parsing"
    /\ i < Len(lines)
    /\ HeaderMatch(lines[i + 1])
    /\ LET level == HeaderLevel(lines[i + 1])
           title == HeaderTitle(lines[i + 1])
           section == Section(title, level, _build_path(secs, stack, title), i)
           id == Len(secs) + 1
           added == _add_section_to_hierarchy(Append(secs, section), sections, id, stack)
       IN  /\ secs' = added.secs
           /\ sections' = added.sections
           /\ stack' = Append(PopStack(secs, stack, level), id)
    /\ i' = i + 1
    /\ UNCHANGED <<pc, lines, code_blocks, PARSED_DOC, call, resp>>

\* a line that opens a fence: lines 52-58 and 64
ParseFence ==
    /\ pc = "parsing"
    /\ i < Len(lines)
    /\ ~HeaderMatch(lines[i + 1])
    /\ IsFenceStart(lines[i + 1])
    /\ LET r == _parse_code_block(lines, i)
       IN  /\ IF r.block # None /\ stack # <<>>
              THEN LET code_block == [r.block[1] EXCEPT
                                         !.context_section = secs[DeepestOpen(stack)].path]
                   IN  /\ secs' = [secs EXCEPT ![DeepestOpen(stack)].code_blocks =
                                                  Append(@, code_block)]
                       /\ code_blocks' = Append(code_blocks, code_block)
              ELSE UNCHANGED <<secs, code_blocks>>
           /\ i' = r.end + 1
    /\ UNCHANGED <<pc, lines, stack, sections, PARSED_DOC, call, resp>>

\* any other line: lines 61-64
ParseContent ==
    /\ pc = "parsing"
    /\ i < Len(lines)
    /\ ~HeaderMatch(lines[i + 1])
    /\ ~IsFenceStart(lines[i + 1])
    /\ IF stack # <<>>
       THEN secs' = [secs EXCEPT ![DeepestOpen(stack)].content = @ \o lines[i + 1] \o NL]
       ELSE UNCHANGED secs
    /\ i' = i + 1
    /\ UNCHANGED <<pc, lines, stack, sections, code_blocks, PARSED_DOC, call, resp>>

\* after the loop: lines 66-79, and load_documentation's assignment (line 46)
ParseFinish ==
    /\ pc = "parsing"
    /\ i >= Len(lines)
    /\ LET flat == _flatten_sections(secs, sections)
       IN  PARSED_DOC' = Some(ParsedDoc(sections,
                                        BuildSectionsByPath(secs, flat, EmptyDict),
                                        code_blocks,
                                        _extract_api_entries(secs, flat, EmptyDict)))
    /\ pc' = "running"
    /\ UNCHANGED <<lines, i, stack, secs, sections, code_blocks, call, resp>>

Next == LoadFail \/ LoadStart \/ ParseHeader \/ ParseFence \/ ParseContent \/ ParseFinish

Spec == Init /\ [][Next]_vars

----------------------------------------------------------------------------
(* models.py: Section.get_full_content, CodeBlock.__str__, ParsedDoc.search *)

PreviewLen == 200
DefaultMaxResults == 5
MaxSuggestions == 5
MaxExamples == 10

Hash == <<"#">>

NotLoadedText == <<"D", "o", "c", "u", "m", "e", "n", "t", "a", "t", "i",
    "o", "n", " ", "n", "o", "t", " ", "l", "o", "a", "d", "e", "d">>
NoResultsPrefix == <<"N", "o", " ", "r", "e", "s", "u", "l", "t", "s", " ",
    "f", "o", "u", "n", "d", " ", "f", "o", "r", " ", "'">>
Quote == <<"'">>
Bold == <<"*", "*">>
PathLabel == <<"P", "a", "t", "h", ":", " ">>
PreviewLabel == <<"P", "r", "e", "v", "i", "e", "w", ":", " ">>
Ellipsis == <<".", ".", ".">>
SectionType == <<"s", "e", "c", "t", "i", "o", "n">>
SuggestHeader == <<"S", "e", "c", "t", "i", "o", "n", " ", "n", "o", "t",
    " ", "f", "o", "u", "n", "d", ".", " ", "D", "i", "d", " ", "y", "o",
    "u", " ", "m", "e", "a", "n", " ", "o", "n", "e", " ", "o", "f", " ",
    "t", "h", "e", "s", "e", "?", "\n">>
Bullet == <<"-", " ">>
SectionNotFoundPrefix == <<"S", "e", "c", "t", "i", "o", "n", " ", "n", "o",
    "t", " ", "f", "o", "u", "n", "d", ":", " ">>
NoExamplesPrefix == <<"N", "o", " ", "c", "o", "d", "e", " ", "e", "x", "a",
    "m", "p", "l", "e", "s", " ", "f", "o", "u", "n", "d", " ", "f", "o",
    "r", " ", "'">>
FromSection == <<"*", "*", "F", "r", "o", "m", " ", "s", "e", "c", "t", "i",
    "o", "n", ":", "*", "*", " ">>
TypeLabel == <<"T", "y", "p", "e", ":", " ">>
NoApiPrefix == <<"N", "o", " ", "A", "P", "I", " ", "d", "o", "c", "u", "m",
    "e", "n", "t", "a", "t", "i", "o", "n", " ", "f", "o", "u", "n", "d",
    " ", "f", "o", "r", " ", "'">>
ParentNotFoundPrefix == <<"P", "a", "r", "e", "n", "t", " ", "s", "e", "c",
    "t", "i", "o", "n", " ", "n", "o", "t", " ", "f", "o", "u", "n", "d",
    ":", " ">>
NoSubsectionsPrefix == <<"N", "o", " ", "s", "u", "b", "s", "e", "c", "t",
    "i", "o", "n", "s", " ", "f", "o", "u", "n", "d", " ", "u", "n", "d",
    "e", "r", " ", "'">>
SubsectionsOfPrefix == <<"S", "u", "b", "s", "e", "c", "t", "i", "o", "n",
    "s", " ", "o", "f", " ", "'">>
TopLevelHeader == <<"T", "o", "p", "-", "l", "e", "v", "e", "l", " ", "s",
    "e", "c", "t", "i", "o", "n", "s", ":", "\n">>

\* '#' * n
RECURSIVE Repeat(_, _)
Repeat(s, n) == IF n <= 0 THEN <<>> ELSE s \o Repeat(s, n - 1)

\* Section.get_full_content(include_subsections); the recursive call passes
\* no argument, so below the first level subsections are always included
RECURSIVE get_full_content(_, _, _)
get_full_content(heap, id, include_subsections) ==
    LET own == Repeat(Hash, heap[id].level) \o <<" ">> \o heap[id].title
                   \o NL \o NL \o heap[id].content
        subs == heap[id].subsections
        rest == [m \in 1..Len(subs) |-> NL \o NL \o get_full_content(heap, subs[m], TRUE)]
    IN  IF include_subsections THEN own \o Join(rest, <<>>) ELSE own

\* CodeBlock.__str__
BlockStr(b) == Fence \o b.language \o NL \o b.code \o NL \o Fence

\* section.content[:200] + "..." if len(section.content) > 200 else section.content
Preview(text) ==
    IF Len(text) > PreviewLen THEN Take(text, PreviewLen) \o Ellipsis ELSE text

\* the dict search() appends for a section
SearchResult(section) ==
    [title |-> section.title, path |-> section.path,
     preview |-> Preview(section.content), type |-> SectionType]

\* a match that compares the title with == where the code uses "in"
SearchMatchWholeTitle(section, query_lower) ==
    \/ query_lower = Lower(section.title)
    \/ Contains(query_lower, Lower(section.content))

\* query_lower in section.title.lower() or query_lower in section.content.lower()
SearchMatch(section, query_lower) ==
    \/ Contains(query_lower, Lower(section.title))
    \/ Contains(query_lower, Lower(section.content))

\* len(results) >= max_results: the test that ends the loop of search()
LimitReached(results, max_results) == Len(results) >= max_results

\* the loop of search() over the remaining top-level sections
RECURSIVE SearchLoop(_, _, _, _, _)
SearchLoop(heap, ids, query_lower, max_results, results) ==
    IF ids = <<>> THEN results
    ELSE IF SearchMatch(heap[ids[1]], query_lower)
    THEN LET more == Append(results, SearchResult(heap[ids[1]]))
         IN  IF LimitReached(more, max_results) THEN more
             ELSE SearchLoop(heap, Tail(ids), query_lower, max_results, more)
    ELSE SearchLoop(heap, Tail(ids), query_lower, max_results, results)

\* ParsedDoc.search(query, max_results)
search(heap, doc, query, max_results) ==
    SearchLoop(heap, doc.sections, Lower(query), max_results, <<>>)

----------------------------------------------------------------------------
(* server.py: the five tools *)

\* truthiness of an Optional[str] argument: None and "" are falsy
Truthy(opt) == opt # None /\ opt[1] # <<>>

\* the text search_docs makes of the results
FormatResults(results) ==
    Join([k \in 1..Len(results) |->
              Bold \o results[k].title \o Bold \o NL
                  \o PathLabel \o results[k].path \o NL
                  \o PreviewLabel \o results[k].preview \o NL],
         NL \o NL)

\* search_docs(query, max_results)
SearchDocsWith(queries, limits) ==
    /\ pc = "running"
    /\ \E query \in queries, max_results \in limits :
           IF NoDocument(PARSED_DOC)
           THEN /\ resp' = NotLoadedText
                /\ call' = [op |-> "search_docs", query |-> query,
                            max_results |-> max_results, results |-> <<>>]
           ELSE LET results == search(secs, PARSED_DOC[1], query, max_results)
                IN  /\ resp' = IF results = <<>>
                               THEN NoResultsPrefix \o query \o Quote
                               ELSE FormatResults(results)
                    /\ call' = [op |-> "search_docs", query |-> query,
                                max_results |-> max_results, results |-> results]
    /\ UNCHANGED <<pc, lines, i, stack, secs, sections, code_blocks, PARSED_DOC>>

\* [p for p in sections_by_path.keys() if path.lower() in p.lower()]
SimilarPaths(doc, path) ==
    SelectSeq(doc.sections_by_path.keys, LAMBDA p : Contains(Lower(path), Lower(p)))

\* similar_paths[:4]
SuggestionsOneShort(similar_paths) == Take(similar_paths, MaxSuggestions - 1)

\* similar_paths[:5]
Suggestions(similar_paths) == Take(similar_paths, MaxSuggestions)

\* get_section(path)
GetSectionWith(paths) ==
    /\ pc = "running"
    /\ \E path \in paths :
           /\ call' = [op |-> "get_section", path |-> path]
           /\ IF NoDocument(PARSED_DOC)
              THEN resp' = NotLoadedText
              ELSE LET section == DictGet(PARSED_DOC[1].sections_by_path, path)
                       similar_paths == SimilarPaths(PARSED_DOC[1], path)
                       shown == Suggestions(similar_paths)
                   IN  resp' =
                           IF Falsy(section)
                           THEN IF similar_paths # <<>>
                                THEN SuggestHeader \o
                                     Join([k \in 1..Len(shown) |-> Bullet \o shown[k]], NL)
                                ELSE SectionNotFoundPrefix \o path
                           ELSE get_full_content(secs, section[1], TRUE)
    /\ UNCHANGED <<pc, lines, i, stack, secs, sections, code_blocks, PARSED_DOC>>

\* the filter of get_code_examples over all_code_blocks
RelevantExamples(doc, topic, language) ==
    SelectSeq(doc.all_code_blocks,
              LAMBDA b :
                  /\ \/ Contains(Lower(topic), Lower(b.code))
                     \/ Contains(Lower(topic), Lower(b.context_section))
                  /\ ~(Truthy(language) /\ Lower(b.language) # Lower(language[1])))

\* get_code_examples(topic, language)
GetCodeExamplesWith(topics, languages) ==
    /\ pc = "running"
    /\ \E topic \in topics, language \in languages :
           /\ call' = [op |-> "get_code_examples", topic |-> topic, language |-> language]
           /\ IF NoDocument(PARSED_DOC)
              THEN resp' = NotLoadedText
              ELSE LET relevant_examples == RelevantExamples(PARSED_DOC[1], topic, language)
                       shown == Take(relevant_examples, MaxExamples)
                   IN  resp' =
                           IF relevant_examples = <<>>
                           THEN NoExamplesPrefix \o topic \o Quote
                           ELSE Join([k \in 1..Len(shown) |->
                                         FromSection \o shown[k].context_section
                                             \o NL \o NL \o BlockStr(shown[k])],
                                     NL \o NL)
    /\ UNCHANGED <<pc, lines, i, stack, secs, sections, code_blocks, PARSED_DOC>>

\* method_lower in line.lower() and ('##' in line or '###' in line)
MethodLineHit(line, method_lower) ==
    /\ Contains(method_lower, Lower(line))
    /\ Contains(Hash \o Hash, line) \/ Contains(Hash \o Hash \o Hash, line)

\* the loop of get_api_info over the lines of the text (lines 186-193)
RECURSIVE MethodSection(_, _, _, _)
MethodSection(ls, method_lower, capturing, method_section) ==
    IF ls = <<>> THEN method_section
    ELSE IF MethodLineHit(ls[1], method_lower)
    THEN MethodSection(Tail(ls), method_lower, TRUE, Append(method_section, ls[1]))
    ELSE IF capturing /\ StartsWith(Strip(ls[1]), Hash)
    THEN method_section
    ELSE MethodSection(Tail(ls), method_lower, capturing,
                       IF capturing THEN Append(method_section, ls[1]) ELSE method_section)

\* lines 177-198: the text for the section found by its title
SectionApiText(heap, id, method_name) ==
    LET text == get_full_content(heap, id, TRUE)
        method_section == MethodSection(Split(text, "\n"), Lower(method_name[1]), FALSE, <<>>)
    IN  IF Truthy(method_name) /\ method_section # <<>>
        THEN Join(method_section, NL)
        ELSE text

\* lines 201-211: the text for an entry of api_entries
EntryApiText(heap, doc, api_entry) ==
    LET section == DictGet(doc.sections_by_path, api_entry.section_path)
    IN  Hash \o <<" ">> \o api_entry.name \o NL \o NL
            \o TypeLabel \o api_entry.type \o NL \o NL
            \o api_entry.description \o NL \o NL
            \o (IF api_entry.section_path # <<>> /\ ~Falsy(section)
                THEN get_full_content(heap, section[1], TRUE)
                ELSE <<>>)

\* get_api_info(class_name, method_name), the documentation being loaded
ApiInfo(heap, doc, class_name, method_name) ==
    LET api_entry == DictGet(doc.api_entries, class_name)
        candidates == doc.sections_by_path.vals
        hits == {k \in 1..Len(candidates) :
                    Contains(Lower(class_name), Lower(heap[candidates[k]].title))}
    IN  IF Falsy(api_entry) /\ hits # {}
        THEN SectionApiText(heap, candidates[CHOOSE k \in hits : \A m \in hits : k <= m],
                            method_name)
        ELSE IF ~Falsy(api_entry)
        THEN EntryApiText(heap, doc, api_entry[1])
        ELSE NoApiPrefix \o class_name \o Quote

\* get_api_info(class_name, method_name)
GetApiInfoWith(class_names, method_names) ==
    /\ pc = "running"
    /\ \E class_name \in class_names, method_name \in method_names :
           /\ call' = [op |-> "get_api_info", class_name |-> class_name,
                       method_name |-> method_name]
           /\ resp' = IF NoDocument(PARSED_DOC) THEN NotLoadedText
                      ELSE ApiInfo(secs, PARSED_DOC[1], class_name, method_name)
    /\ UNCHANGED <<pc, lines, i, stack, secs, sections, code_blocks, PARSED_DOC>>

\* "\n".join(f"- {s.title}: {s.path}" for s in ...)
SectionList(heap, ids) ==
    Join([k \in 1..Len(ids) |->
              Bullet \o heap[ids[k]].title \o <<":", " ">> \o heap[ids[k]].path], NL)

\* list_sections(parent_path), the documentation being loaded
ListSectionsText(heap, doc, parent_path) ==
    IF Truthy(parent_path)
    THEN LET parent_section == DictGet(doc.sections_by_path, parent_path[1])
         IN  IF Falsy(parent_section)
             THEN ParentNotFoundPrefix \o parent_path[1]
             ELSE IF heap[parent_section[1]].subsections = <<>>
             THEN NoSubsectionsPrefix \o parent_path[1] \o Quote
             ELSE SubsectionsOfPrefix \o parent_path[1] \o Quote \o <<":">> \o NL
                      \o SectionList(heap, heap[parent_section[1]].subsections)
    ELSE TopLevelHeader \o SectionList(heap, doc.sections)

\* list_sections(parent_path)
ListSectionsWith(parent_paths) ==
    /\ pc = "running"
    /\ \E parent_path \in parent_paths :
           /\ call' = [op |-> "list_sections", parent_path |-> parent_path]
           /\ resp' = IF NoDocument(PARSED_DOC) THEN NotLoadedText
                      ELSE ListSectionsText(secs, PARSED_DOC[1], parent_path)
    /\ UNCHANGED <<pc, lines, i, stack, secs, sections, code_blocks, PARSED_DOC>>

----------------------------------------------------------------------------
(* The process with its tools *)

MaxQueryLines == 3
MaxServerLines == 2
MaxHeaderLines == 6

H1a == <<"#", " ", "a">>
H1ab == <<"#", " ", "a", "b">>
H3a == <<"#", "#", "#", " ", "a">>
H1ClassC == <<"#", " ">> \o ClassWord \o <<" ", "C">>
TextAb == <<"A", "b">>

QueryLines == {H1a, H1ab, H2b, H1ClassC, TextAb, Fence}
HeaderLines == {H1a, H2b, H3a}

QueryDocs == Texts(QueryLines, MaxQueryLines)
ServerDocs == Texts(QueryLines, MaxServerLines)
SectionDocs == QueryDocs \cup Texts(HeaderLines, MaxHeaderLines)
ApiDocs == Texts(QueryLines \cup {H3c}, MaxQueryLines)

Strings == {<<"a">>, <<"A">>, <<"b">>, <<"a", "/", "b">>, <<"C">>, <<"z">>}

Limits == {-1, 0, 1, 2, DefaultMaxResults}

Languages == {None, Some(<<>>), Some(<<"P", "Y">>), Some(Plaintext)}

LoadQueryDoc == LoadFrom(QueryDocs)
LoadServerDoc == LoadFrom(ServerDocs)
LoadSectionDoc == LoadFrom(SectionDocs)
LoadApiDoc == LoadFrom(ApiDocs)

SearchDocs == SearchDocsWith(Strings, Limits)
GetSection == GetSectionWith(Strings \cup {<<>>})
GetCodeExamples == GetCodeExamplesWith(Strings, Languages)
GetApiInfo == GetApiInfoWith(Strings, {None, Some(<<>>), Some(<<"b">>), Some(<<"B">>)})
ListSections == ListSectionsWith({None, Some(<<>>)} \cup {Some(x) : x \in Strings})

\* the process: the start, then the five tools in any order
NextServer ==
    \/ LoadFail \/ LoadServerDoc
    \/ ParseHeader \/ ParseFence \/ ParseContent \/ ParseFinish
    \/ SearchDocs \/ GetSection \/ GetCodeExamples \/ GetApiInfo \/ ListSections

SpecServer == Init /\ [][NextServer]_vars

\* search_docs over larger documents
NextSearch ==
    \/ LoadFail \/ LoadQueryDoc
    \/ ParseHeader \/ ParseFence \/ ParseContent \/ ParseFinish
    \/ SearchDocs

SpecSearch == Init /\ [][NextSearch]_vars

\* get_section over larger documents and documents of many sections
NextSection ==
    \/ LoadFail \/ LoadSectionDoc
    \/ ParseHeader \/ ParseFence \/ ParseContent \/ ParseFinish
    \/ GetSection

SpecSection == Init /\ [][NextSection]_vars

\* get_api_info over larger documents
NextApi ==
    \/ LoadFail \/ LoadApiDoc
    \/ ParseHeader \/ ParseFence \/ ParseContent \/ ParseFinish
    \/ GetApiInfo

SpecApi == Init /\ [][NextApi]_vars

----------------------------------------------------------------------------
(* Properties of the parser *)

SectionIds == 1..Len(secs)

\* the sections that hold section c in their subsections list
ParentsOf(c) == {p \in SectionIds : \E m \in 1..Len(secs[p].subsections) :
                                        secs[p].subsections[m] = c}

IsTopLevel(c) == \E m \in 1..Len(sections) : sections[m] = c

RECURSIVE Height(_)
Height(id) ==
    LET subs == secs[id].subsections
        hs == {Height(subs[m]) : m \in 1..Len(subs)}
    IN  1 + (IF hs = {} THEN 0 ELSE CHOOSE h \in hs : \A g \in hs : g <= h)

FourOrMoreMarkers(line) == LeadingHashes(line) >= 4

\* C1: once the document is parsed, every section's path is its parent's
\* path, a slash and its own title, and a top-level section's path is its
\* title.
C1_PathIsParentPathAndTitle ==
    pc = "running" =>
        \A c \in SectionIds :
            /\ IsTopLevel(c) => secs[c].path = secs[c].title
            /\ \A p \in ParentsOf(c) :
                   secs[c].path = secs[p].path \o Slash \o secs[c].title

\* the section that is the deepest open one when the loop is at line k
\* (0-based): the last one created from an earlier line, 0 for none
OpenAt(k) ==
    LET before == {s \in SectionIds : secs[s].line_number < k}
    IN  IF before = {} THEN 0 ELSE CHOOSE s \in before : \A t \in before : t <= s

\* C2 as stated: every line of four or more markers is, with a newline, in
\* the content of the section that is the deepest open one at that line.
C2_DeepHeaderAlwaysInContent ==
    pc = "running" =>
        \A k \in 0..(Len(lines) - 1) :
            FourOrMoreMarkers(lines[k + 1]) /\ OpenAt(k) # 0
                => Contains(lines[k + 1] \o NL, secs[OpenAt(k)].content)

C2_NoDeepSection ==
    /\ \A s \in SectionIds :
           /\ secs[s].level \in 1..3
           /\ ~FourOrMoreMarkers(lines[secs[s].line_number + 1])
    /\ \A m \in 1..Len(sections) : Height(sections[m]) <= 3

C2_LoopFoldsDeepHeader ==
    (pc = "parsing" /\ i < Len(lines) /\ FourOrMoreMarkers(lines[i + 1])) =>
        /\ sections' = sections
        /\ stack' = stack
        /\ code_blocks' = code_blocks
        /\ i' = i + 1
        /\ IF stack = <<>>
           THEN secs' = secs
           ELSE secs' = [secs EXCEPT ![Last(stack)].content = @ \o lines[i + 1] \o NL]

\* C2, amended: a line of four or more markers never creates a section (no
\* section has a level outside 1..3 or comes from such a line, no tree is
\* higher than three), and when the loop of parse_document reaches such a
\* line (it does not lie inside a fenced block) the line and a newline are
\* appended to the content of the deepest open section, or the line is
\* dropped when no section is open; nothing else changes.
C2_DeepHeaderIsContent == [](C2_NoDeepSection) /\ [][C2_LoopFoldsDeepHeader]_vars

C2_Witness ==
    /\ pc = "running"
    /\ \E s \in SectionIds : secs[s].level = 3 /\ secs[s].content = H4d \o NL
    /\ \E m \in 1..Len(sections) : Height(sections[m]) = 3

AllBlocks ==
    {code_blocks[n] : n \in 1..Len(code_blocks)} \cup
    UNION {{secs[s].code_blocks[m] : m \in 1..Len(secs[s].code_blocks)} : s \in SectionIds}

\* line k (0-based) opens a fence that no later line closes
UnclosedFenceAt(k) ==
    /\ IsFenceStart(lines[k + 1])
    /\ \A j \in (k + 1)..(Len(lines) - 1) : ~IsFenceEnd(lines[j + 1])

C3_NoBlockFromUnclosedFence ==
    /\ pc = "parsing" => i <= Len(lines) + 1
    /\ pc = "running" /\ lines # <<>> =>
           /\ PARSED_DOC # None
           /\ PARSED_DOC[1].all_code_blocks = code_blocks
    /\ \A k \in 0..(Len(lines) - 1) :
           UnclosedFenceAt(k) => \A b \in AllBlocks : b.line_number # k

C3_LoopSkipsToEnd ==
    (pc = "parsing" /\ i < Len(lines) /\ ~HeaderMatch(lines[i + 1]) /\ UnclosedFenceAt(i)) =>
        /\ pc' = "parsing"
        /\ i' = Len(lines) + 1
        /\ secs' = secs
        /\ code_blocks' = code_blocks
        /\ sections' = sections

\* C3: a fence that is opened and never closed does not stop the parse (the
\* loop goes to the end of the input and parse_document returns a
\* ParsedDoc), and no block that starts at its line is in a section's
\* code_blocks or in all_code_blocks.
C3_UnclosedFenceDropped ==
    [](C3_NoBlockFromUnclosedFence) /\ [][C3_LoopSkipsToEnd]_vars

C3_Witness ==
    /\ pc = "running"
    /\ PARSED_DOC # None
    /\ stack # <<>>
    /\ i = Len(lines) + 1
    /\ UnclosedFenceAt(Len(lines) - 1) \/ UnclosedFenceAt(Len(lines) - 2)
    /\ code_blocks # <<>>

\* the most recent earlier section of a lower level, 0 for none
NearestLower(c) ==
    LET lower == {p \in 1..(c - 1) : secs[p].level < secs[c].level}
    IN  IF lower = {} THEN 0 ELSE CHOOSE p \in lower : \A q \in lower : q <= p

C8_StackIncreasing ==
    /\ Len(stack) <= 3
    /\ \A k \in 1..(Len(stack) - 1) : secs[stack[k]].level < secs[stack[k + 1]].level
    /\ \A c \in SectionIds :
           /\ \A p \in ParentsOf(c) : secs[p].level < secs[c].level
           /\ IF NearestLower(c) = 0
              THEN IsTopLevel(c) /\ ParentsOf(c) = {}
              ELSE ParentsOf(c) = {NearestLower(c)} /\ ~IsTopLevel(c)

\* the stack once its entries of the level or deeper are popped from the top
AfterPop(stk, level) ==
    LET deep == {k \in 1..Len(stk) : \A m \in k..Len(stk) : secs[stk[m]].level >= level}
    IN  SubSeq(stk, 1, Len(stk) - Cardinality(deep))

C8_AttachUnderPoppedTop ==
    Len(secs') > Len(secs) =>
        LET id == Len(secs')
            popped == AfterPop(stack, secs'[id].level)
        IN  /\ stack' = Append(popped, id)
            /\ IF popped = <<>>
               THEN sections' = Append(sections, id)
               ELSE /\ sections' = sections
                    /\ secs'[Last(popped)].subsections =
                           Append(secs[Last(popped)].subsections, id)

\* C8: each new section becomes a child of the entry on top of the stack
\* once the entries of its level or deeper are popped (the most recent
\* earlier header of a lower level), or a top-level section when nothing is
\* left; so a section's level is above its parent's, and the stack rises
\* strictly in level and holds at most three entries.
C8_ParentIsNearestLower == [](C8_StackIncreasing) /\ [][C8_AttachUnderPoppedTop]_vars

C8_Witness ==
    /\ Len(secs) = 4
    /\ stack = <<1, 4>>
    /\ sections = <<1>>
    /\ secs[1].subsections = <<2, 4>>
    /\ secs[2].subsections = <<3>>

\* the places (section, index) where a block that starts at line n is held
Holders(n) ==
    {h \in SectionIds \X (1..Len(lines)) :
        /\ h[2] <= Len(secs[h[1]].code_blocks)
        /\ secs[h[1]].code_blocks[h[2]].line_number = n}

----------------------------------------------------------------------------
(* Properties of the tools *)

Loaded == PARSED_DOC # None

\* the top-level sections, in document order, that search() matches
RECURSIVE MatchingTopLevel(_, _)
MatchingTopLevel(ids, query) ==
    IF ids = <<>> THEN <<>>
    ELSE (IF \/ Contains(Lower(query), Lower(secs[ids[1]].title))
             \/ Contains(Lower(query), Lower(secs[ids[1]].content))
          THEN <<ids[1]>> ELSE <<>>) \o MatchingTopLevel(Tail(ids), query)

\* search(T) with the default max_results, T the title of a top-level section
TitleSearch ==
    /\ call.op = "search_docs"
    /\ Loaded
    /\ call.max_results = DefaultMaxResults
    /\ \E m \in 1..Len(sections) : secs[sections[m]].title = call.query

\* C4 as stated: search(T) returns a top-level section titled T first, with
\* type "section".
C4_TitledSectionIsFirst ==
    TitleSearch =>
        /\ call.results # <<>>
        /\ call.results[1].type = SectionType
        /\ \E m \in 1..Len(sections) :
               /\ secs[sections[m]].title = call.query
               /\ call.results[1].title = secs[sections[m]].title
               /\ call.results[1].path = secs[sections[m]].path

\* C4, amended: search(T) returns a non-empty result whose first entry, of
\* type "section", is the first top-level section in document order whose
\* title or content contains T without regard to case; it is the section
\* titled T when no earlier top-level section matches.
C4_FirstMatchIsFirst ==
    TitleSearch =>
        LET matching == MatchingTopLevel(sections, call.query)
        IN  /\ call.results # <<>>
            /\ matching # <<>>
            /\ call.results[1].type = SectionType
            /\ call.results[1].title = secs[matching[1]].title
            /\ call.results[1].path = secs[matching[1]].path
            /\ call.results[1].preview = secs[matching[1]].content
            /\ secs[matching[1]].title # call.query =>
                   \E m \in 1..Len(sections) :
                       /\ secs[sections[m]].title = call.query
                       /\ secs[matching[1]].line_number < secs[sections[m]].line_number

C4_Witness ==
    /\ TitleSearch
    /\ Len(call.results) = 2
    /\ call.results[1].title # call.query
    /\ call.results[2].title = call.query
    /\ ~Contains(Lower(call.query), Lower(call.results[1].title))

\* C5: search(query, max_results) returns at most max_results entries, the
\* first matching top-level sections in document order.
C5_AtMostMaxResults ==
    (call.op = "search_docs" /\ Loaded /\ call.max_results >= 0) =>
        LET matching == MatchingTopLevel(sections, call.query)
        IN  /\ Len(call.results) <= call.max_results
            /\ Len(call.results) <= Len(matching)
            /\ \A k \in 1..Len(call.results) :
                   call.results[k] = SearchResult(secs[matching[k]])

\* the paths of the index that hold path without regard to case
SimilarKeys(path) ==
    LET keys == PARSED_DOC[1].sections_by_path.keys
    IN  {keys[k] : k \in {n \in 1..Len(keys) : Contains(Lower(path), Lower(keys[n]))}}

\* get_section was called with a path that is no key of the path map
SectionMiss ==
    /\ call.op = "get_section"
    /\ Loaded
    /\ \A k \in 1..Len(PARSED_DOC[1].sections_by_path.keys) :
           PARSED_DOC[1].sections_by_path.keys[k] # call.path

\* the paths a suggestion text lists, one "- path" per line
SuggestedPaths(text) ==
    LET items == Split(Drop(text, Len(SuggestHeader)), "\n")
    IN  [k \in 1..Len(items) |-> Drop(items[k], Len(Bullet))]

\* C6: on a path that is no key of the path map get_section never returns a
\* section's content; when some indexed path holds the path without regard
\* to case it returns a suggestion list of such paths only, at most five,
\* and all of them when there are at most five; otherwise it reports
\* not-found.
C6_MissGivesSuggestions ==
    SectionMiss =>
        /\ \A s \in SectionIds :
               /\ resp # get_full_content(secs, s, TRUE)
               /\ resp # get_full_content(secs, s, FALSE)
        /\ IF SimilarKeys(call.path) # {}
           THEN LET shown == SuggestedPaths(resp)
                IN  /\ StartsWith(resp, SuggestHeader)
                    /\ \A k \in 1..Len(shown) :
                           /\ shown[k] \in SimilarKeys(call.path)
                           /\ StartsWith(Split(Drop(resp, Len(SuggestHeader)), "\n")[k], Bullet)
                    /\ Len(shown) \in 1..5
                    /\ Cardinality(SimilarKeys(call.path)) <= 5 =>
                           \A p \in SimilarKeys(call.path) :
                               \E k \in 1..Len(shown) : shown[k] = p
           ELSE resp = SectionNotFoundPrefix \o call.path

C6_Witness ==
    /\ SectionMiss
    /\ Cardinality(SimilarKeys(call.path)) > 5
    /\ Len(SuggestedPaths(resp)) = 5
    /\ call.path = <<"A">>

C7_NotLoadedIffNoIndex ==
    /\ (pc = "running" /\ lines = <<>>) => ~Loaded
    /\ (pc = "running" /\ lines # <<>>) => Loaded
    /\ call.op # "none" => (resp = NotLoadedText <=> ~Loaded)

C7_KeepsRunning ==
    pc = "running" => (pc' = "running" /\ PARSED_DOC' = PARSED_DOC /\ call'.op # "none")

\* C7: when the load fails the process goes on without an index and every
\* call of a tool returns "Documentation not loaded"; when a document was
\* loaded, even an empty one, no call returns that text.
C7_NotLoadedOnlyWithoutIndex ==
    [](C7_NotLoadedIffNoIndex) /\ [][C7_KeepsRunning]_vars

C7_Witness ==
    /\ pc = "running"
    /\ ~Loaded
    /\ call.op = "list_sections"
    /\ resp = NotLoadedText

\* get_api_info was called with a method name, no entry of api_entries has
\* the class name, and the title of section s holds the class name
MethodLookup(s) ==
    /\ call.op = "get_api_info"
    /\ Loaded
    /\ Truthy(call.method_name)
    /\ \A k \in 1..Len(PARSED_DOC[1].api_entries.keys) :
           PARSED_DOC[1].api_entries.keys[k] # call.class_name
    /\ \E k \in 1..Len(PARSED_DOC[1].sections_by_path.vals) :
           PARSED_DOC[1].sections_by_path.vals[k] = s
    /\ Contains(Lower(call.class_name), Lower(secs[s].title))

\* the run of lines of text from the first line that holds the method name
\* and a level-2 or level-3 marker to just before the next header line; the
\* whole text when no line starts such a run
MethodRun(text, method_name) ==
    LET ls == Split(text, "\n")
        starts == {k \in 1..Len(ls) :
                      /\ Contains(Lower(method_name), Lower(ls[k]))
                      /\ Contains(<<"#", "#">>, ls[k])}
    IN  IF starts = {} THEN text
        ELSE LET first == CHOOSE k \in starts : \A m \in starts : k <= m
                 heads == {k \in (first + 1)..Len(ls) : StartsWith(Strip(ls[k]), <<"#">>)}
                 stop == IF heads = {} THEN Len(ls) + 1
                         ELSE CHOOSE k \in heads : \A m \in heads : k <= m
             IN  Join(SubSeq(ls, first, stop - 1), NL)

\* C9: with no exact API entry, a section whose title matches class_name and
\* a method name, get_api_info returns the run of lines of the section's
\* rendered content from the first line that holds the method name and a
\* level-2 or level-3 marker to just before the next header line, or the
\* whole content when there is no such line.
C9_NarrowedToMethodRun ==
    (\E s \in SectionIds : MethodLookup(s)) =>
        \E s \in SectionIds :
            /\ MethodLookup(s)
            /\ resp = MethodRun(get_full_content(secs, s, TRUE), call.method_name[1])

====
